---- MODULE Spec2Model ----
(***************************************************************************)
(* Model of src/js.c: the bare-metal driver that runs one embedded script  *)
(* on an MQuickJS context and the host functions (print, load, timers,     *)
(* clock, gc) the script can call.  The engine and the UART are external:  *)
(* the engine's answers (context creation, conversion outcome, out of      *)
(* memory) are nondeterministic choices, the UART is the byte sequence     *)
(* written so far.  Text is a sequence of byte codes.                      *)
(***************************************************************************)
EXTENDS Integers, Sequences, FiniteSets

\* ---------------------------------------------------------------- bounds
MaxCalls == 1
MaxArgs == 2

\* ------------------------------------------------------------- constants
NUL == 0
SP == 32
NL == 10
LoopLimit == 10

msg == <<72, 101, 108, 108, 111, 32, 102, 114, 111, 109, 32, 74, 83, 33>>
successMessage ==
  <<83, 117, 99, 99, 101, 115, 115, 102, 117, 108, 32, 74, 97, 118, 97, 83,
    99, 114, 105, 112, 116, 33, 10>>
FailedMsg ==
  <<70, 97, 105, 108, 101, 100, 32, 116, 111, 32, 99, 114, 101, 97, 116, 101,
    32, 74, 83, 32, 99, 111, 110, 116, 101, 120, 116, 10>>
ExceptionPrefix == <<74, 83, 32, 69, 120, 99, 101, 112, 116, 105, 111, 110, 58, 32>>
ResultPrefix == <<82, 101, 115, 117, 108, 116, 58, 32>>
UndefinedText == <<117, 110, 100, 101, 102, 105, 110, 101, 100>>
LoadMessage ==
  <<108, 111, 97, 100, 32, 110, 111, 116, 32, 105, 109, 112, 108, 101, 109,
    101, 110, 116, 101, 100>>
InternalErrorPrefix ==
  <<73, 110, 116, 101, 114, 110, 97, 108, 69, 114, 114, 111, 114, 58, 32>>
OutOfMemoryMessage == <<111, 117, 116, 32, 111, 102, 32, 109, 101, 109, 111, 114, 121>>

\* ---------------------------------------------------------- tagged values
Value(t, n, s) == [tag |-> t, num |-> n, str |-> s]
NoValue == Value("none", 0, <<>>)
JS_UNDEFINED == Value("undefined", 0, <<>>)
JS_EXCEPTION == Value("exception", 0, <<>>)
JS_NewInt32(n) == Value("int32", n, <<>>)
JS_NewString(s) == Value("string", 0, s)
JS_Function == Value("function", 0, <<>>)
JS_Error(text) == Value("object", 0, text)
JS_IsException(v) == v.tag = "exception"

RECURSIVE Digits(_)
Digits(n) == IF n < 10 THEN <<48 + n>> ELSE Digits(n \div 10) \o <<48 + (n % 10)>>

\* the engine's value-to-string conversion of a value
StringOf(v) ==
  CASE v.tag = "undefined" -> UndefinedText
    [] v.tag = "int32" -> IF v.num < 0 THEN <<45>> \o Digits(-v.num) ELSE Digits(v.num)
    [] v.tag = "string" -> v.str
    [] v.tag = "object" -> v.str
    [] OTHER -> <<>>

\* what JS_ToCString can hand back for a value: nothing, the caller's inline
\* buffer, the content of an existing string value, or a js_malloc'ed copy
ToCStringOutcomes(v) ==
  IF v.tag = "string" THEN {"null", "ref", "malloc"} ELSE {"null", "buf", "malloc"}
NULL == [kind |-> "null", bytes |-> <<>>]
JS_ToCString(v, o) == IF o = "null" THEN NULL ELSE [kind |-> o, bytes |-> StringOf(v)]

\* ------------------------------------------------------------------- UART
strlen(s) ==
  IF \E k \in 1..Len(s) : s[k] = NUL
    THEN (CHOOSE k \in 1..Len(s) : s[k] = NUL /\ \A m \in 1..(k - 1) : s[m] # NUL) - 1
    ELSE Len(s)
uart_puts(s) == SubSeq(s, 1, strlen(s))
uart_putc(c) == <<c>>

\* ------------------------------------------------------------------ state
VARIABLES
  pc,                 \* position of main
  ctx,                \* lifecycle state of the engine context
  nops,               \* how often main called create / evaluate / get_exception / destroy
  badop,              \* an engine operation was made in a state that forbids it
  exception,          \* the context's pending exception slot
  convBufs,           \* arena buffers handed out by JS_ToCString and not released
  uart,               \* bytes written to the UART
  exitStatus,         \* return value of main, -1 while it runs
  result,             \* value returned by JS_Eval
  report,             \* what main's reporting step did
  spc,                \* position of the script inside JS_Eval
  i, j, iteration_message,   \* variables of the embedded script
  ncalls,             \* host function calls made so far
  lastCall            \* the host function call that last returned into the running script

vars == <<pc, ctx, nops, badop, exception, convBufs, uart, exitStatus, result,
          report, spc, i, j, iteration_message, ncalls, lastCall>>
scriptVars == <<i, j, iteration_message>>
mainVars == <<pc, nops, exitStatus, result, report>>

NoCall == [fn |-> "none", argv |-> <<>>, conv |-> <<>>, out |-> <<>>,
           ret |-> NoValue, bufs0 |-> 0]
NoReport == [path |-> "none", value |-> NoValue, conv |-> "none", out |-> <<>>]

Init ==
  /\ pc = "start"
  /\ ctx = "Uninitialized"
  /\ nops = [create |-> 0, evaluate |-> 0, get_exception |-> 0, destroy |-> 0]
  /\ badop = FALSE
  /\ exception = NoValue
  /\ convBufs = 0
  /\ uart = <<>>
  /\ exitStatus = -1
  /\ result = NoValue
  /\ report = NoReport
  /\ spc = "none"
  /\ i = 0
  /\ j = 0
  /\ iteration_message = <<>>
  /\ ncalls = 0
  /\ lastCall = NoCall

\* --------------------------------------------------------- engine context
\* the states in which the engine accepts an operation
EngineAccepts(op, c) ==
  CASE op = "create" -> c = "Uninitialized"
    [] op = "evaluate" -> c \in {"Created", "Idle"}
    [] op = "destroy" -> c \in {"Created", "Idle"}
    [] OTHER -> c \in {"Created", "Evaluating", "Idle"}

Count(op) == [nops EXCEPT ![op] = @ + 1]


\* ------------------------------------------------------------ host bridge
\* the record of one host function call, as the script sees it return
HostReturn(fn, argv, conv, out, ret) ==
  /\ ncalls' = ncalls + 1
  /\ lastCall' = [fn |-> fn, argv |-> argv, conv |-> conv, out |-> out,
                  ret |-> ret, bufs0 |-> convBufs]

\* js_print, the loop over argv: the bytes it writes from argument k on
RECURSIVE js_print_loop(_, _, _)
js_print_loop(argv, conv, k) ==
  IF k > Len(argv) THEN <<>>
  ELSE (IF k # 1 THEN uart_putc(SP) ELSE <<>>)
       \o (IF JS_ToCString(argv[k], conv[k]) # NULL
             THEN uart_puts(JS_ToCString(argv[k], conv[k]).bytes)
             ELSE <<>>)
       \o js_print_loop(argv, conv, k + 1)

\* variant: the final uart_putc('\n') left out
js_print_out_nonl(argv, conv) == js_print_loop(argv, conv, 1)

js_print_out(argv, conv) == js_print_loop(argv, conv, 1) \o uart_putc(NL)

\* js_print never releases what JS_ToCString allocated
js_print_held(argv, conv) == Cardinality({k \in 1..Len(argv) : conv[k] = "malloc"})

\* variant: a failed conversion is handed on as an exception
js_print_ret_throw(argv, conv) ==
  IF \E k \in 1..Len(argv) : conv[k] = "null" THEN JS_EXCEPTION ELSE JS_UNDEFINED

js_print_ret(argv, conv) == JS_UNDEFINED

js_print(argv, conv) ==
  /\ uart' = uart \o js_print_out(argv, conv)
  /\ convBufs' = convBufs + js_print_held(argv, conv)
  /\ exception' = exception
  /\ badop' = (badop \/ (Len(argv) > 0 /\ ~EngineAccepts("to_string", ctx)))
  /\ HostReturn("print", argv, conv, js_print_out(argv, conv), js_print_ret(argv, conv))

JS_ThrowInternalError(m) ==
  [pending |-> JS_Error(InternalErrorPrefix \o m), ret |-> JS_EXCEPTION]

\* variant: load stubbed like the timer functions
js_load_result_stub(argv) == [pending |-> exception, ret |-> JS_UNDEFINED]

js_load_result(argv) == JS_ThrowInternalError(LoadMessage)

js_load(argv) ==
  /\ exception' = js_load_result(argv).pending
  /\ UNCHANGED <<uart, convBufs, badop>>
  /\ HostReturn("load", argv, <<>>, <<>>, js_load_result(argv).ret)

\* variant: no handle handed back
js_setTimeout_ret_undef(argv) == JS_UNDEFINED

js_setTimeout_ret(argv) == JS_NewInt32(0)

js_setTimeout(argv) ==
  /\ UNCHANGED <<uart, convBufs, badop, exception>>
  /\ HostReturn("setTimeout", argv, <<>>, <<>>, js_setTimeout_ret(argv))

js_clearTimeout_ret(argv) == JS_UNDEFINED

js_clearTimeout(argv) ==
  /\ UNCHANGED <<uart, convBufs, badop, exception>>
  /\ HostReturn("clearTimeout", argv, <<>>, <<>>, js_clearTimeout_ret(argv))

js_date_now(argv) ==
  /\ UNCHANGED <<uart, convBufs, badop, exception>>
  /\ HostReturn("date_now", argv, <<>>, <<>>, JS_NewInt32(0))

js_performance_now(argv) ==
  /\ UNCHANGED <<uart, convBufs, badop, exception>>
  /\ HostReturn("performance_now", argv, <<>>, <<>>, JS_NewInt32(0))

\* JS_GC reclaims script objects; a js_malloc'ed buffer is not one
js_gc(argv) ==
  /\ badop' = (badop \/ ~EngineAccepts("collect", ctx))
  /\ UNCHANGED <<uart, convBufs, exception>>
  /\ HostReturn("gc", argv, <<>>, <<>>, JS_UNDEFINED)

\* ------------------------------------------------------------------- main
main_NewContext ==
  /\ pc = "start"
  /\ nops' = Count("create")
  /\ badop' = (badop \/ ~EngineAccepts("create", ctx))
  /\ \E ok \in BOOLEAN :
       IF ok
         THEN /\ ctx' = "Created"
              /\ pc' = "eval"
              /\ UNCHANGED <<uart, exitStatus>>
         ELSE /\ ctx' = ctx
              /\ uart' = uart \o uart_puts(FailedMsg)
              /\ exitStatus' = 1
              /\ pc' = "done"
  /\ UNCHANGED <<exception, convBufs, result, report, spc, scriptVars, ncalls, lastCall>>

main_Eval ==
  /\ pc = "eval"
  /\ nops' = Count("evaluate")
  /\ badop' = (badop \/ ~EngineAccepts("evaluate", ctx))
  /\ ctx' = "Evaluating"
  /\ pc' = "evaluating"
  /\ spc' = "run"
  /\ i' = 0
  /\ j' = 0
  /\ iteration_message' = <<>>
  /\ UNCHANGED <<exception, convBufs, uart, exitStatus, result, report, ncalls, lastCall>>

\* JS_Eval hands back the completion value or the exception marker; nothing
\* reads the script's variables after that
eval_return(v) ==
  /\ result' = v
  /\ ctx' = "Idle"
  /\ pc' = "report"
  /\ spc' = "none"
  /\ i' = 0
  /\ j' = 0
  /\ iteration_message' = <<>>
  /\ lastCall' = NoCall
  /\ UNCHANGED <<nops, badop, exception, convBufs, uart, exitStatus, report, ncalls>>

\* the engine runs out of arena (or fails internally) while the script runs
engine_throw ==
  /\ pc = "evaluating"
  /\ spc = "run"
  /\ exception' = JS_Error(InternalErrorPrefix \o OutOfMemoryMessage)
  /\ spc' = "throwing"
  /\ UNCHANGED <<mainVars, ctx, badop, convBufs, uart, scriptVars, ncalls, lastCall>>

eval_throw ==
  /\ pc = "evaluating"
  /\ spc = "throwing"
  /\ eval_return(JS_EXCEPTION)

\* variant: "JS Exception: " written only when the conversion succeeded
main_report_out_guarded(res, exc, o) ==
  IF JS_IsException(res)
    THEN IF JS_ToCString(exc, o) # NULL
           THEN uart_puts(ExceptionPrefix) \o uart_puts(JS_ToCString(exc, o).bytes) \o uart_putc(NL)
           ELSE <<>>
    ELSE IF JS_ToCString(res, o) # NULL
           THEN uart_puts(ResultPrefix) \o uart_puts(JS_ToCString(res, o).bytes) \o uart_putc(NL)
           ELSE <<>>

\* the bytes main writes once JS_Eval is back
main_report_out(res, exc, o) ==
  IF JS_IsException(res)
    THEN uart_puts(ExceptionPrefix)
         \o (IF JS_ToCString(exc, o) # NULL THEN uart_puts(JS_ToCString(exc, o).bytes) ELSE <<>>)
         \o uart_putc(NL)
    ELSE IF JS_ToCString(res, o) # NULL
           THEN uart_puts(ResultPrefix) \o uart_puts(JS_ToCString(res, o).bytes) \o uart_putc(NL)
           ELSE <<>>

\* whether main fetches the pending exception
main_fetches(res) == JS_IsException(res)

main_report ==
  /\ pc = "report"
  /\ \E o \in ToCStringOutcomes(IF JS_IsException(result) THEN exception ELSE result) :
       /\ uart' = uart \o main_report_out(result, exception, o)
       /\ convBufs' = convBufs + (IF o = "malloc" THEN 1 ELSE 0)
       /\ report' = [path |-> IF JS_IsException(result) THEN "exception" ELSE "normal",
                     value |-> IF JS_IsException(result) THEN exception ELSE result,
                     conv |-> o,
                     out |-> main_report_out(result, exception, o)]
  /\ nops' = IF main_fetches(result) THEN Count("get_exception") ELSE nops
  /\ exception' = IF main_fetches(result) THEN NoValue ELSE exception
  /\ badop' = (badop \/ ~EngineAccepts("to_string", ctx))
  /\ pc' = "free"
  /\ UNCHANGED <<ctx, exitStatus, result, spc, scriptVars, ncalls, lastCall>>

\* variant: an exception reported through the exit status
main_return_fail(res) == IF JS_IsException(res) THEN 1 ELSE 0

main_return(res) == 0

\* variant: the exception path returns without JS_FreeContext
main_FreeContext_skipped ==
  /\ pc = "free"
  /\ IF JS_IsException(result)
       THEN UNCHANGED <<nops, badop, ctx, convBufs, exception>>
       ELSE /\ nops' = Count("destroy")
            /\ badop' = (badop \/ ~EngineAccepts("destroy", ctx))
            /\ ctx' = "Destroyed"
            /\ convBufs' = 0
            /\ exception' = NoValue
  /\ exitStatus' = main_return(result)
  /\ pc' = "done"
  /\ UNCHANGED <<uart, result, report, spc, scriptVars, ncalls, lastCall>>

main_FreeContext ==
  /\ pc = "free"
  /\ nops' = Count("destroy")
  /\ badop' = (badop \/ ~EngineAccepts("destroy", ctx))
  /\ ctx' = "Destroyed"
  /\ convBufs' = 0
  /\ exception' = NoValue
  /\ exitStatus' = main_return(result)
  /\ pc' = "done"
  /\ UNCHANGED <<uart, result, report, spc, scriptVars, ncalls, lastCall>>

\* ------------------------------------------------------ the embedded script
\* for (j = 0; j < i; j++) { iteration_message += msg; }
script_concat ==
  /\ pc = "evaluating"
  /\ spc = "run"
  /\ i < LoopLimit
  /\ j < i
  /\ iteration_message' = iteration_message \o msg
  /\ j' = j + 1
  /\ UNCHANGED <<mainVars, ctx, badop, exception, convBufs, uart, spc, i, ncalls, lastCall>>

\* variant: iteration_message += "\n" left out
script_print_iteration_nonl ==
  /\ pc = "evaluating"
  /\ spc = "run"
  /\ i < LoopLimit
  /\ ~(j < i)
  /\ \E o \in ToCStringOutcomes(JS_NewString(iteration_message)) :
       js_print(<<JS_NewString(iteration_message)>>, <<o>>)
  /\ i' = i + 1
  /\ j' = 0
  /\ iteration_message' = <<>>
  /\ UNCHANGED <<mainVars, ctx, spc>>

\* iteration_message += "\n"; print(iteration_message); i++
script_print_iteration ==
  /\ pc = "evaluating"
  /\ spc = "run"
  /\ i < LoopLimit
  /\ ~(j < i)
  /\ \E o \in ToCStringOutcomes(JS_NewString(iteration_message \o <<NL>>)) :
       js_print(<<JS_NewString(iteration_message \o <<NL>>)>>, <<o>>)
  /\ i' = i + 1
  /\ j' = 0
  /\ iteration_message' = <<>>
  /\ UNCHANGED <<mainVars, ctx, spc>>

\* print(successMessage), the last statement
script_print_success ==
  /\ pc = "evaluating"
  /\ spc = "run"
  /\ ~(i < LoopLimit)
  /\ \E o \in ToCStringOutcomes(JS_NewString(successMessage)) :
       js_print(<<JS_NewString(successMessage)>>, <<o>>)
  /\ spc' = "end"
  /\ UNCHANGED <<mainVars, ctx, scriptVars>>

script_completes ==
  /\ pc = "evaluating"
  /\ spc = "end"
  /\ eval_return(JS_UNDEFINED)

Next ==
  \/ main_NewContext
  \/ main_Eval
  \/ script_concat
  \/ script_print_iteration
  \/ script_print_success
  \/ script_completes
  \/ engine_throw
  \/ eval_throw
  \/ main_report
  \/ main_FreeContext

Spec == Init /\ [][Next]_vars

\* ------------------------------------------- any script on the host bridge
HostValues == {JS_NewInt32(12), JS_NewString(<<97>>), JS_NewString(<<98, NUL, 99>>)}
ArgLists == UNION {[1..n -> HostValues] : n \in 0..MaxArgs}
TimerArgLists == {<<>>, <<JS_Function>>, <<JS_Function, JS_NewInt32(12)>>, <<JS_NewInt32(0)>>}
ResultValues == {JS_UNDEFINED, JS_NewInt32(12)}
ConvChoices(argv) ==
  {c \in [1..Len(argv) -> {"null", "buf", "ref", "malloc"}] :
     \A k \in 1..Len(argv) : c[k] \in ToCStringOutcomes(argv[k])}

InScript == pc = "evaluating" /\ spc = "run" /\ ncalls < MaxCalls

\* the script goes on after a call, or unwinds when the call threw
AfterCall ==
  /\ spc' = IF JS_IsException(lastCall'.ret) THEN "throwing" ELSE "run"
  /\ UNCHANGED <<mainVars, ctx, scriptVars>>

call_print == InScript /\ (\E argv \in ArgLists : \E conv \in ConvChoices(argv) : js_print(argv, conv)) /\ AfterCall
call_load == InScript /\ (\E argv \in ArgLists : js_load(argv)) /\ AfterCall
call_setTimeout == InScript /\ (\E argv \in TimerArgLists : js_setTimeout(argv)) /\ AfterCall
call_clearTimeout == InScript /\ (\E argv \in TimerArgLists : js_clearTimeout(argv)) /\ AfterCall
call_date_now == InScript /\ js_date_now(<<>>) /\ AfterCall
call_performance_now == InScript /\ js_performance_now(<<>>) /\ AfterCall
call_gc == InScript /\ js_gc(<<>>) /\ AfterCall

\* try { ... } catch (e) { } around the throwing call
script_catch ==
  /\ pc = "evaluating"
  /\ spc = "throwing"
  /\ spc' = "run"
  /\ exception' = NoValue
  /\ UNCHANGED <<mainVars, ctx, badop, convBufs, uart, scriptVars, ncalls, lastCall>>

any_script_completes ==
  /\ pc = "evaluating"
  /\ spc = "run"
  /\ \E v \in ResultValues : eval_return(v)

NextHost ==
  \/ main_NewContext
  \/ main_Eval
  \/ call_print
  \/ call_load
  \/ call_setTimeout
  \/ call_clearTimeout
  \/ call_date_now
  \/ call_performance_now
  \/ call_gc
  \/ script_catch
  \/ eval_throw
  \/ any_script_completes
  \/ main_report
  \/ main_FreeContext

SpecHost == Init /\ [][NextHost]_vars


\* ================================================================ claims
RECURSIVE Repeat(_, _)
Repeat(s, n) == IF n = 0 THEN <<>> ELSE s \o Repeat(s, n - 1)

\* the representations of argv[1..n], a single space between neighbours
RECURSIVE JoinSP(_, _)
JoinSP(argv, n) ==
  IF n = 0 THEN <<>>
  ELSE JoinSP(argv, n - 1) \o (IF n > 1 THEN <<SP>> ELSE <<>>) \o StringOf(argv[n])

HasNUL(s) == \E k \in 1..Len(s) : s[k] = NUL

\* a text as a C string: its bytes before the first NUL
RECURSIVE CText(_)
CText(s) == IF s = <<>> \/ Head(s) = NUL THEN <<>> ELSE <<Head(s)>> \o CText(Tail(s))

PrintReturned == ncalls' = ncalls + 1 /\ lastCall'.fn = "print"
AllConverted(c) == \A k \in 1..Len(c.argv) : c.conv[k] # "null"
SomeFailed(c) == \E k \in 1..Len(c.argv) : c.conv[k] = "null"

C2_Edges ==
  {<<"Uninitialized", "Created">>, <<"Created", "Evaluating">>,
   <<"Evaluating", "Idle">>, <<"Idle", "Destroyed">>}

C2_Lifecycle ==
  /\ [](/\ ~badop
        /\ nops.create <= 1 /\ nops.evaluate <= 1 /\ nops.destroy <= 1
        /\ (nops.evaluate > 0 => nops.create = 1 /\ ctx # "Uninitialized")
        /\ (nops.destroy > 0 => nops.evaluate = 1)
        /\ (ctx = "Destroyed" <=> nops.destroy = 1)
        /\ (ctx = "Destroyed" => pc = "done")
        /\ (pc = "done" => ctx \in {"Uninitialized", "Destroyed"})
        /\ (pc = "done" /\ ctx = "Uninitialized"
              => nops.create = 1 /\ nops.evaluate = 0 /\ nops.destroy = 0)
        /\ (pc = "done" /\ ctx = "Destroyed"
              => nops.evaluate = 1 /\ nops.destroy = 1
                 /\ report.path \in {"normal", "exception"}))
  /\ [][/\ (ctx' # ctx => <<ctx, ctx'>> \in C2_Edges)
        /\ (ctx = "Destroyed" => UNCHANGED vars)]_vars

C2_Witness ==
  pc = "done" /\ ctx = "Destroyed" /\ report.path = "exception" /\ nops.destroy = 1

\* C3: a run in which evaluate returns an exception ends with an exit status
\* different from the one of a run in which evaluate completes normally.
C3_StatusTellsException ==
  pc = "done" /\ report.path = "exception" => exitStatus # main_return(JS_UNDEFINED)

\* C4: main exits with status 1 exactly when context creation fails, having
\* written "Failed to create JS context\n" and nothing else; whenever creation
\* succeeds and the script is over, it exits with status 0.
C4_ExitStatus ==
  /\ (exitStatus = 1 <=> (pc = "done" /\ nops.create = 1 /\ ctx = "Uninitialized"))
  /\ (exitStatus = 1 => uart = FailedMsg)
  /\ (pc = "done" /\ ctx = "Destroyed" => exitStatus = 0)
  /\ (pc # "done" => exitStatus = -1)

C4_Witness == pc = "done" /\ exitStatus = 1 /\ uart # <<>>

ReportStep == pc = "report" /\ pc' = "free"

\* C5 as stated: after evaluate, on an exception main fetches it and writes
\* "JS Exception: ", its representation and a newline; otherwise it writes
\* "Result: ", the result's representation and a newline, and fetches nothing.
C5_Original ==
  [][ReportStep
       => IF JS_IsException(result)
            THEN /\ nops'.get_exception = nops.get_exception + 1
                 /\ uart' = uart \o ExceptionPrefix \o StringOf(exception) \o <<NL>>
            ELSE /\ nops' = nops
                 /\ uart' = uart \o ResultPrefix \o StringOf(result) \o <<NL>>]_vars

\* C5 amended: after evaluate main takes exactly one of two paths.  On an
\* exception it fetches the pending exception and writes "JS Exception: ", the
\* exception's representation if its conversion succeeded, and a newline, and
\* never "Result: ".  Otherwise it fetches nothing and, if the result's
\* conversion succeeded, writes "Result: ", the representation and a newline;
\* if that conversion failed it writes nothing at all.
C5_Report ==
  [][ReportStep
       => /\ report'.path = (IF JS_IsException(result) THEN "exception" ELSE "normal")
          /\ IF JS_IsException(result)
               THEN /\ nops'.get_exception = nops.get_exception + 1
                    /\ exception' = NoValue
                    /\ report'.value = exception
                    /\ uart' = uart \o ExceptionPrefix
                                    \o (IF report'.conv # "null" THEN StringOf(exception) ELSE <<>>)
                                    \o <<NL>>
               ELSE /\ nops' = nops
                    /\ exception' = exception
                    /\ report'.value = result
                    /\ uart' = uart \o (IF report'.conv # "null"
                                          THEN ResultPrefix \o StringOf(result) \o <<NL>>
                                          ELSE <<>>)]_vars

C5_Witness ==
  /\ pc = "free"
  /\ report.path = "normal"
  /\ report.conv = "null"
  /\ report.out = <<>>

HostReturned(fn) == ncalls' = ncalls + 1 /\ lastCall'.fn = fn

C7_NoBufferHeld == lastCall.fn = "print" => convBufs = 0

\* C8 as stated: the k-th of the 11 print calls prints k-1 repetitions of
\* "Hello from JS!" followed by a newline, the last one "Successful
\* JavaScript!\n", and nothing else is printed.
C8_Line(k) == IF k <= LoopLimit THEN Repeat(msg, k - 1) \o <<NL>> ELSE successMessage

C8_Original ==
  lastCall.fn = "print" /\ AllConverted(lastCall) => lastCall.out = C8_Line(ncalls)

\* C8 amended: once the context exists, print is only ever called with one
\* argument, in this order: call k = 1..10 with k-1 repetitions of "Hello from
\* JS!" followed by a newline, call 11 with "Successful JavaScript!\n"; a call
\* whose conversion succeeds writes its argument and then one more newline;
\* when evaluate completes without exception exactly 11 calls were made.
C8_PrintSequence ==
  /\ [](/\ ncalls <= LoopLimit + 1
        /\ lastCall.fn \in {"none", "print"}
        /\ (lastCall.fn = "print"
              => /\ lastCall.argv = <<JS_NewString(C8_Line(ncalls))>>
                 /\ lastCall.out = (IF AllConverted(lastCall) THEN C8_Line(ncalls) ELSE <<>>)
                                     \o <<NL>>)
        /\ (pc \in {"report", "free", "done"} /\ nops.evaluate = 1 /\ ~JS_IsException(result)
              => ncalls = LoopLimit + 1))
  /\ [][ncalls' # ncalls
          => /\ PrintReturned
             /\ uart' = uart \o lastCall'.out]_vars

C8_Witness ==
  /\ ncalls = LoopLimit + 1
  /\ lastCall.fn = "print"
  /\ AllConverted(lastCall)
  /\ Len(uart) >= Len(successMessage) + 1

\* C9: setTimeout returns a handle at once for any arguments, records nothing
\* and runs no callback; clearTimeout takes any handle, returns Undefined and
\* touches neither the context nor the UART.
C9_TimerStubs ==
  [][/\ (HostReturned("setTimeout") => lastCall'.ret = JS_NewInt32(0))
     /\ (HostReturned("clearTimeout") => lastCall'.ret = JS_UNDEFINED)
     /\ (HostReturned("setTimeout") \/ HostReturned("clearTimeout")
           => /\ spc' = "run"
              /\ lastCall'.out = <<>>
              /\ UNCHANGED <<uart, exception, convBufs, ctx, pc, exitStatus, badop,
                             nops, result, report>>)]_vars

C9_Witness ==
  /\ lastCall.fn = "setTimeout"
  /\ lastCall.argv = <<JS_Function, JS_NewInt32(12)>>
  /\ lastCall.ret.tag = "int32"
  /\ spc = "run"

\* what print writes for argv[1..n] when conversions may fail
RECURSIVE PrintedUpTo(_, _, _)
PrintedUpTo(argv, conv, n) ==
  IF n = 0 THEN <<>>
  ELSE PrintedUpTo(argv, conv, n - 1)
       \o (IF n > 1 THEN <<SP>> ELSE <<>>)
       \o (IF conv[n] = "null" THEN <<>> ELSE CText(StringOf(argv[n])))

\* C10: when conversion fails for some arguments of print(a1, ..., an), print
\* still completes: it writes the text of every converted argument in order,
\* n-1 separator spaces and one final newline, and returns Undefined.
C10_FailedConversion ==
  [][PrintReturned /\ SomeFailed(lastCall')
       => /\ uart' = uart \o PrintedUpTo(lastCall'.argv, lastCall'.conv, Len(lastCall'.argv))
                       \o <<NL>>
          /\ lastCall'.ret = JS_UNDEFINED
          /\ ~JS_IsException(lastCall'.ret)
          /\ spc' \in {"run", "end"}
          /\ exception' = exception]_vars

C10_Witness ==
  /\ lastCall.fn = "print"
  /\ Len(lastCall.argv) = 2
  /\ lastCall.conv[1] = "null"
  /\ lastCall.conv[2] # "null"
  /\ lastCall.ret = JS_UNDEFINED

====
